---- MODULE Spec2Model ----
(***************************************************************************)
(* A model of mkdown's MarkdownConverter (src/src/mkdown/mdparser.py): the *)
(* class-level converter cache, the cache key, engine dispatch and the     *)
(* backend converters it builds; and of the optional-backend adapters'     *)
(* constructors.                                                           *)
(*                                                                         *)
(* Python values are modelled as tagged records (PyNone, PyStr, PyList),   *)
(* dicts as insertion-ordered sequences of <<key, value>> pairs, and the   *)
(* JSON text json.dumps produces as a sequence of tokens.                  *)
(***************************************************************************)
EXTENDS Integers, Sequences, FiniteSets, TLC

\* ------------------------------------------------------------------ bounds

\* MarkdownConverter objects a run constructs.
MaxObjects == 2
\* Backend converter instances a run constructs (by _setup_engine and by convert).
MaxInstances == 4
\* Longest extensions list whose cache key is computed.
MaxExtLen == 2
\* Adapter objects (parsers, converters, post processors) a run constructs.
MaxAdapters == 2
\* Keyword options passed in one conversion call on a parser adapter.
MaxOptions == 2

\* Stages registered with one pipeline.
MaxStages == 4

\* Elements under the root of a tree.
MaxElements == 2

\* Tokens of an HTML text handed to a sanitizer.
MaxTokens == 2
\* Calls of convert a caller makes with the same argument objects.
MaxCalls == 2

\* ----------------------------------------------------------- Python values

PyNone == [kind |-> "None", str |-> "", items |-> <<>>]

PyStr(s) == [kind |-> "str", str |-> s, items |-> <<>>]

PyList(l) == [kind |-> "list", str |-> "", items |-> l]

\* Python truthiness: None, "" and [] are falsy.
Truthy(v) ==
    \/ v.kind = "str" /\ v.str # ""
    \/ v.kind = "list" /\ v.items # <<>>

Contains(l, x) == \E i \in 1..Len(l) : l[i] = x

\* The strings of the model in Python's (code point) order.
StringOrder ==
    <<"admonition", "engine", "extensions", "extra", "extras", "mistune", "toc">>

Rank(s) == CHOOSE i \in 1..Len(StringOrder) : StringOrder[i] = s

\* sorted(l) for a list of strings: insertion into the sorted prefix.
RECURSIVE InsertSorted(_, _)
InsertSorted(x, l) ==
    IF l = <<>> THEN <<x>>
    ELSE IF Rank(x) < Rank(Head(l)) THEN <<x>> \o l
    ELSE <<Head(l)>> \o InsertSorted(x, Tail(l))

RECURSIVE sorted(_)
sorted(l) ==
    IF l = <<>> THEN <<>> ELSE InsertSorted(l[Len(l)], sorted(SubSeq(l, 1, Len(l) - 1)))

\* --------------------------------------------------------------- dicts

\* d[k] = v on an insertion-ordered dict: an existing key keeps its place.
DictSet(d, k, v) ==
    IF \E i \in 1..Len(d) : d[i][1] = k
    THEN [i \in 1..Len(d) |-> IF d[i][1] = k THEN <<k, v>> ELSE d[i]]
    ELSE Append(d, <<k, v>>)

\* {**d, **e}
RECURSIVE DictUpdate(_, _)
DictUpdate(d, e) ==
    IF e = <<>> THEN d ELSE DictUpdate(DictSet(d, Head(e)[1], Head(e)[2]), Tail(e))

DictKeys(d) == {d[i][1] : i \in 1..Len(d)}

DictGet(d, k) == d[CHOOSE i \in 1..Len(d) : d[i][1] = k][2]

\* d without key k (dict.pop's effect on the dict).
DictDel(d, k) == SelectSeq(d, LAMBDA p : p[1] # k)

\* The items of d in ascending key order (json.dumps sort_keys=True).
RECURSIVE SortedItems(_)
SortedItems(d) ==
    IF d = <<>> THEN <<>>
    ELSE LET m == CHOOSE i \in 1..Len(d) :
                    \A j \in 1..Len(d) : Rank(d[i][1]) <= Rank(d[j][1])
         IN <<d[m]>> \o SortedItems(DictDel(d, d[m][1]))

\* ---------------------------------------------------------------- json

Quote(s) == "\"" \o s \o "\""

RECURSIVE JoinItems(_)
JoinItems(l) ==
    IF l = <<>> THEN <<>>
    ELSE IF Len(l) = 1 THEN <<Quote(l[1])>>
    ELSE <<Quote(l[1]), ",">> \o JoinItems(Tail(l))

\* json.dumps of a value, as tokens.
DumpValue(v) ==
    IF v.kind = "None" THEN <<"null">>
    ELSE IF v.kind = "str" THEN <<Quote(v.str)>>
    ELSE <<"[">> \o JoinItems(v.items) \o <<"]">>

RECURSIVE DumpItems(_)
DumpItems(d) ==
    IF d = <<>> THEN <<>>
    ELSE LET one == <<Quote(d[1][1]), ":">> \o DumpValue(d[1][2])
         IN IF Len(d) = 1 THEN one ELSE one \o <<",">> \o DumpItems(Tail(d))

\* json.dumps(d, sort_keys=True) of a dict, as tokens.
json_dumps(d) == <<"{">> \o DumpItems(SortedItems(d)) \o <<"}">>

\* ------------------------------------------------------ inputs of a run

\* mdparser.py:14-20
SUPPORTED_ENGINES ==
    <<"python-markdown", "mistune", "markdown2", "markdownify", "mdx_math">>

\* Engine names a caller may pass to the constructor: the supported ones and
\* one that is not in the list.
EngineNames == {SUPPORTED_ENGINES[i] : i \in 1..Len(SUPPORTED_ENGINES)} \cup {"comrak"}

ExtNames == {"admonition", "toc"}

\* Texts a caller converts; "deep" is one the backend fails on (input nested
\* deeper than the interpreter's recursion limit).
Texts == {"t1", "deep"}

\* Values of the extensions argument in the calls of a run.
ExtensionArgs == {PyNone, PyList(<<"toc">>)}

\* **kwargs in the calls of a run.
KwargsArgs == {<<>>}

\* ------------------------------------------------------------- backends

NoKey == <<>>

\* Keyword parameters of mistune.create_markdown.
MistuneKeywords == {"escape", "hard_wrap", "renderer", "plugins"}

\* Keyword parameters of markdown2.Markdown other than extras.
Markdown2Keywords ==
    {"html4tags", "tab_width", "safe_mode", "link_patterns", "footnote_title",
     "footnote_return_symbol", "use_file_vars", "cli"}

\* What a conversion routine hands to its backend's constructor: the library,
\* the extension list and the remaining keyword options; error is the
\* exception raised instead, if any.
Plan(error, lib, extensions, options) ==
    [error |-> error, lib |-> lib, extensions |-> extensions, options |-> options]

\* A backend converter object as constructed: seen is the state that
\* conversions leave in it (link references, footnotes, ...) until a reset;
\* forKey records the cache key of the convert call that constructed it.
NewInstance(plan, forKey) ==
    [lib |-> plan.lib, extensions |-> plan.extensions, options |-> plan.options,
     seen |-> {}, forKey |-> forKey]

\* Whether the backend reports a failure on this text.
BackendFails(text) == text = "deep"

\* Whether the backend object has a convert method: markdown.Markdown and
\* markdown2.Markdown do, mistune's Markdown is only callable.
HasConvert(inst) == inst.lib # "mistune"

NoHtml == [ok |-> FALSE, lib |-> "", extensions |-> <<>>, text |-> "", carried |-> {}]

\* The HTML a backend converter returns: a function of its configuration, of
\* the text, and of the state earlier conversions left in it.
Render(inst, text) ==
    [ok |-> TRUE, lib |-> inst.lib, extensions |-> inst.extensions, text |-> text,
     carried |-> inst.seen]

\* The converter after it has processed text.
AfterConvert(inst, text) == [inst EXCEPT !.seen = @ \cup {text}]

\* ------------------------------------------------------- MarkdownConverter

\* _get_cache_key with the extensions taken in the caller's order.
_get_cache_key_unsorted(engine, extensions, kwargs) ==
    json_dumps(
        DictUpdate(
            <<<<"engine", PyStr(engine)>>,
              <<"extensions",
                IF Truthy(extensions) THEN PyList(extensions.items) ELSE PyNone>>>>,
            kwargs))

\* _get_cache_key: mdparser.py:44-51
_get_cache_key(engine, extensions, kwargs) ==
    LET cache_data ==
            DictUpdate(
                <<<<"engine", PyStr(engine)>>,
                  <<"extensions",
                    IF Truthy(extensions) THEN PyList(sorted(extensions.items))
                    ELSE PyNone>>>>,
                kwargs)
    IN json_dumps(cache_data)

\* _get_cached_converter: mdparser.py:53-55.  0 stands for None.
_get_cached_converter(cache, cache_key) ==
    IF cache_key \in DOMAIN cache THEN cache[cache_key] ELSE 0

\* _setup_engine: mdparser.py:57-70.  The default converter of each engine; the
\* engines without a branch set no converter.
_setup_engine(engine) ==
    IF engine = "python-markdown" THEN Plan("none", "python-markdown", <<"extra">>, <<>>)
    ELSE IF engine = "mistune" THEN Plan("none", "mistune", <<>>, <<>>)
    ELSE IF engine = "markdown2" THEN Plan("none", "markdown2", <<>>, <<>>)
    ELSE Plan("unset", "", <<>>, <<>>)

\* _convert_python_markdown: mdparser.py:164-186, up to the constructor call.
_convert_python_markdown(engine, extensions, admonitions, kwargs) ==
    LET md_extensions == IF Truthy(extensions) THEN extensions.items ELSE <<>>
        with_admonition ==
            IF admonitions /\ ~Contains(md_extensions, "admonition")
            THEN Append(md_extensions, "admonition")
            ELSE md_extensions
    IN IF engine = "python-markdown"
       THEN Plan("none", "python-markdown", with_admonition, <<>>)
       ELSE Plan("skip", "", <<>>, <<>>)

\* _convert_mistune: mdparser.py:188-196, up to the constructor call.
_convert_mistune(engine, kwargs) ==
    IF engine # "mistune" THEN Plan("skip", "", <<>>, <<>>)
    ELSE IF DictKeys(kwargs) \subseteq MistuneKeywords
    THEN Plan("none", "mistune", <<>>, kwargs)
    ELSE Plan("TypeError", "", <<>>, <<>>)

\* _convert_markdown2: mdparser.py:198-214, up to the constructor call.
_convert_markdown2(engine, extensions, admonitions, kwargs) ==
    LET popped == IF "extras" \in DictKeys(kwargs) THEN DictGet(kwargs, "extras").items ELSE <<>>
        rest == DictDel(kwargs, "extras")
        extended == IF Truthy(extensions) THEN popped \o extensions.items ELSE popped
        extras == IF admonitions THEN Append(extended, "admonition") ELSE extended
    IN IF engine # "markdown2" THEN Plan("skip", "", <<>>, <<>>)
       ELSE IF DictKeys(rest) \subseteq Markdown2Keywords
       THEN Plan("none", "markdown2", extras, rest)
       ELSE Plan("TypeError", "", <<>>, <<>>)

\* _convert_with_engine: mdparser.py:146-162.
_convert_with_engine(engine, extensions, admonitions, kwargs) ==
    IF engine = "python-markdown"
    THEN _convert_python_markdown(engine, extensions, admonitions, kwargs)
    ELSE IF engine = "mistune" THEN _convert_mistune(engine, kwargs)
    ELSE IF engine = "markdown2"
    THEN _convert_markdown2(engine, extensions, admonitions, kwargs)
    ELSE Plan("ValueError", "", <<>>, <<>>)

\* ---------------------------------------------------------------- state

VARIABLES
    objects,          \* the MarkdownConverter objects constructed so far
    instances,        \* the backend converter objects constructed so far
    converter_cache,  \* MarkdownConverter._converter_cache: cache key -> instance
    calls,            \* per thread, the convert call it is in
    last,             \* the call that completed last, with its outcome
    key_args,         \* arguments of a _get_cache_key call
    key_result,       \* what _get_cache_key returned for key_args (NoKey: not yet)
    installed,        \* the optional backend libraries that can be imported
    adapters,         \* the adapter objects constructed so far
    raised,           \* what the last adapter constructor call raised, if anything
    parser,           \* the parser adapter object constructed, if any
    pcall,            \* the last conversion call on a parser adapter, with its outcome
    sanitizer,        \* what create_sanitizer returned or raised, or a SanitizeHTMLProcessor
    pipeline,         \* a post-processing pipeline and its run
    title,            \* a title extraction stage, its tree and its outcome
    arguments         \* the argument objects a caller of convert holds

cachevars == <<objects, instances, converter_cache, calls, last>>

keyvars == <<key_args, key_result>>

adaptervars == <<installed, adapters, raised>>

parservars == <<parser, pcall>>

\* The variables of the parser adapters and of the post-processing stages.
stagevars == <<sanitizer, pipeline, title>>

latervars == <<parservars, stagevars, arguments>>

vars == <<cachevars, keyvars, adaptervars, latervars>>

\* Threads that call convert concurrently.
Threads == {1, 2}

\* A call: its arguments, where it stands (pc) and what it did.  looked_up: it
\* read the cache; hit: the cache had its key; used: the instance that
\* converted the text; built: the instance it constructed (0: none).
NoCall ==
    [op |-> "none", pc |-> "idle", obj |-> 0, engine |-> "", text |-> "",
     extensions |-> PyNone, admonitions |-> FALSE, kwargs |-> <<>>,
     cache_key |-> NoKey, looked_up |-> FALSE, hit |-> FALSE, stored |-> FALSE,
     used |-> 0, built |-> 0, error |-> "none", html |-> NoHtml]

Frame(o, text, extensions, admonitions, kwargs) ==
    [NoCall EXCEPT !.op = "convert", !.pc = "lookup", !.obj = o, !.text = text,
                   !.extensions = extensions, !.admonitions = admonitions,
                   !.kwargs = kwargs]

\* What a completed call leaves to observe: its arguments that select the
\* configuration, and what it did.
Outcome(f) ==
    [op |-> f.op, obj |-> f.obj, engine |-> f.engine,
     extensions |-> f.extensions, admonitions |-> f.admonitions,
     kwargs |-> f.kwargs, cache_key |-> f.cache_key, looked_up |-> f.looked_up, hit |-> f.hit,
     stored |-> f.stored, used |-> f.used, built |-> f.built, error |-> f.error,
     html |-> f.html]

World == [objects |-> objects, instances |-> instances, cache |-> converter_cache]

Raise(w, f, error) == [w |-> w, f |-> [f EXCEPT !.pc = "done", !.error = error]]

\* converter.convert(text) (method TRUE) or converter(text) (method FALSE) on
\* the backend object id.
Invoke(insts, id, text, method) ==
    IF method /\ ~HasConvert(insts[id])
    THEN [error |-> "AttributeError", html |-> NoHtml, instances |-> insts]
    ELSE [error |-> IF BackendFails(text) THEN "ConversionError" ELSE "none",
          html |-> IF BackendFails(text) THEN NoHtml ELSE Render(insts[id], text),
          instances |-> IF BackendFails(text) THEN insts
                        ELSE [insts EXCEPT ![id] = AfterConvert(@, text)]]

\* convert, mdparser.py:128-132 and 139: the cache key and the cache lookup.
StepLookup(w, f) ==
    LET self == w.objects[f.obj]
        cache_key == _get_cache_key(self.engine, f.extensions, f.kwargs)
        converter == _get_cached_converter(w.cache, cache_key)
    IN IF ~self.cache_enabled THEN [w |-> w, f |-> [f EXCEPT !.pc = "build"]]
       ELSE IF converter # 0
       THEN [w |-> w,
             f |-> [f EXCEPT !.pc = "hit", !.cache_key = cache_key,
                             !.looked_up = TRUE, !.hit = TRUE, !.used = converter]]
       ELSE [w |-> w,
             f |-> [f EXCEPT !.pc = "build", !.cache_key = cache_key,
                             !.looked_up = TRUE]]

\* convert, mdparser.py:133: the cached converter converts the text.
StepHit(w, f) ==
    LET r == Invoke(w.instances, f.used, f.text, TRUE)
    IN [w |-> [w EXCEPT !.instances = r.instances],
        f |-> [f EXCEPT !.pc = "done", !.error = r.error, !.html = r.html]]

\* _convert_with_engine and the routine it dispatches to, up to
\* self.converter = <new backend object> (mdparser.py:183, 193, 211).
StepBuild(w, f) ==
    LET self == w.objects[f.obj]
        plan == _convert_with_engine(self.engine, f.extensions, f.admonitions, f.kwargs)
        id == Len(w.instances) + 1
    IN IF plan.error = "skip" THEN [w |-> w, f |-> [f EXCEPT !.pc = "store"]]
       ELSE IF plan.error # "none" THEN Raise(w, f, plan.error)
       ELSE [w |-> [w EXCEPT !.instances = Append(@, NewInstance(plan, f.cache_key)),
                             !.objects[f.obj].converter = id],
             f |-> [f EXCEPT !.pc = "run", !.built = id]]

\* return self.converter.convert(text) / self.converter(text)
\* (mdparser.py:184, 194, 212): self.converter is read again.
StepRun(w, f) ==
    LET self == w.objects[f.obj]
        r == Invoke(w.instances, self.converter, f.text, self.engine # "mistune")
    IN [w |-> [w EXCEPT !.instances = r.instances],
        f |-> [f EXCEPT !.pc = IF r.error = "none" THEN "store" ELSE "done",
                        !.used = self.converter, !.error = r.error, !.html = r.html]]

\* The store of one entry in the cache dict.
CacheStore(cache, cache_key, converter) ==
    [k \in DOMAIN cache \cup {cache_key} |->
        IF k = cache_key THEN converter ELSE cache[k]]

\* convert, mdparser.py:138: self._converter_cache[cache_key] = self.converter
\* when caching is enabled; then return html_content (mdparser.py:144).
StepStore(w, f) ==
    LET self == w.objects[f.obj]
    IN IF self.cache_enabled
       THEN [w |-> [w EXCEPT !.cache = CacheStore(@, f.cache_key, self.converter)],
             f |-> [f EXCEPT !.pc = "done", !.stored = TRUE]]
       ELSE [w |-> w, f |-> [f EXCEPT !.pc = "done"]]

\* One step of a convert call.
Step(w, f) ==
    IF f.pc = "lookup" THEN StepLookup(w, f)
    ELSE IF f.pc = "hit" THEN StepHit(w, f)
    ELSE IF f.pc = "build" THEN StepBuild(w, f)
    ELSE IF f.pc = "run" THEN StepRun(w, f)
    ELSE StepStore(w, f)

\* A convert call run from pc to its return or its exception, with no other
\* call in between.
RECURSIVE RunToCompletion(_, _)
RunToCompletion(w, f) ==
    IF f.pc = "done" THEN [w |-> w, f |-> f]
    ELSE LET r == Step(w, f) IN RunToCompletion(r.w, r.f)

\* __init__ without the check of the engine name.
MarkdownConverter_init_unchecked(objs, insts, engine, cache_enabled) ==
    [error |-> "none",
     objects |-> Append(objs, [engine |-> engine, cache_enabled |-> cache_enabled,
                               converter |-> 0]),
     instances |-> insts]

\* MarkdownConverter.__init__: mdparser.py:36-42.
MarkdownConverter_init(objs, insts, engine, cache_enabled) ==
    IF ~Contains(SUPPORTED_ENGINES, engine)
    THEN [error |-> "ValueError", objects |-> objs, instances |-> insts]
    ELSE LET plan == _setup_engine(engine)
             id == Len(insts) + 1
         IN IF plan.error = "none"
            THEN [error |-> "none",
                  objects |-> Append(objs, [engine |-> engine,
                                            cache_enabled |-> cache_enabled,
                                            converter |-> id]),
                  instances |-> Append(insts, NewInstance(plan, NoKey))]
            ELSE [error |-> "none",
                  objects |-> Append(objs, [engine |-> engine,
                                            cache_enabled |-> cache_enabled,
                                            converter |-> 0]),
                  instances |-> insts]

\* --------------------------------------------------------------- actions

\* A run holds converters of one engine at a time: converters of different
\* engines are constructed in different runs.
OneEngine(engine) == \A i \in 1..Len(objects) : objects[i].engine = engine

Idle == \A t \in Threads : calls[t].pc = "idle"

\* No converter constructed, the class-level cache empty (mdparser.py:23).
InitCache ==
    /\ objects = <<>>
    /\ instances = <<>>
    /\ converter_cache = << >>
    /\ calls = [t \in Threads |-> NoCall]
    /\ last = Outcome(NoCall)

NoKeyArgs == [engine |-> "", extensions |-> PyNone, kwargs |-> <<>>]

InitKey == key_args = NoKeyArgs /\ key_result = NoKey

NoError == [adapter |-> "", type |-> "none", not_installed |-> "", install |-> ""]

InitAdapters == installed = {} /\ adapters = <<>> /\ raised = NoError

\* No parser adapter constructed, no call made.
NoParser == [class |-> "none"]

NoParserCall == [adapter |-> "none"]

InitParsers == parser = NoParser /\ pcall = NoParserCall

NotYet == [class |-> "none"]

\* The caller holds no argument objects.
NoArguments ==
    [extensions |-> PyNone, extras |-> PyNone, calls |-> 0,
     passed |-> [extensions |-> PyNone, extras |-> PyNone],
     how |-> <<>>, cache_key |-> NoKey, repeated |-> FALSE, earlier_key |-> NoKey]

InitLater ==
    /\ InitParsers
    /\ sanitizer = NotYet /\ pipeline = NotYet /\ title = NotYet
    /\ arguments = NoArguments

Init == InitCache /\ InitKey /\ InitAdapters /\ InitLater

\* MarkdownConverter(engine, cache_enabled)
New(engine, cache_enabled) ==
    /\ Idle
    /\ Len(objects) < MaxObjects
    /\ LET r == MarkdownConverter_init(objects, instances, engine, cache_enabled)
       IN /\ r.error = "none" => OneEngine(engine)
          /\ Len(r.instances) <= MaxInstances
          /\ objects' = r.objects
          /\ instances' = r.instances
          /\ last' = Outcome([NoCall EXCEPT
                                !.op = "init", !.engine = engine, !.error = r.error,
                                !.obj = IF r.error = "none" THEN Len(r.objects) ELSE 0])
    /\ UNCHANGED <<converter_cache, calls, keyvars, adaptervars, latervars>>

\* objects[o].convert(text, extensions, admonitions, **kwargs), run to its end.
Convert(o, text, extensions, admonitions, kwargs) ==
    /\ Idle
    /\ \E r \in {RunToCompletion(World, Frame(o, text, extensions, admonitions, kwargs))} :
          /\ Len(r.w.instances) <= MaxInstances
          /\ objects' = r.w.objects
          /\ instances' = r.w.instances
          /\ converter_cache' = r.w.cache
          /\ last' = Outcome(r.f)
    /\ UNCHANGED <<calls, keyvars, adaptervars, latervars>>

\* Calls that leave the admonitions parameter at its default (False).
Next ==
    \/ \E engine \in EngineNames, cache_enabled \in BOOLEAN : New(engine, cache_enabled)
    \/ \E o \in 1..Len(objects), text \in Texts, extensions \in ExtensionArgs,
          kwargs \in KwargsArgs :
            Convert(o, text, extensions, FALSE, kwargs)

\* Calls run one after another, each to completion on the calling thread.
Spec == Init /\ [][Next]_vars

\* The same calls, with the admonitions flag passed either way.
AdmonitionNext ==
    \/ \E engine \in EngineNames, cache_enabled \in BOOLEAN : New(engine, cache_enabled)
    \/ \E o \in 1..Len(objects), text \in Texts, extensions \in ExtensionArgs,
          admonitions \in BOOLEAN, kwargs \in KwargsArgs :
            Convert(o, text, extensions, admonitions, kwargs)

AdmonitionSpec == Init /\ [][AdmonitionNext]_vars

\* ------------------------------------------------------ concurrent calls

\* The effect of one step r of thread t's call.
Apply(t, r) ==
    /\ Len(r.w.instances) <= MaxInstances
    /\ objects' = r.w.objects
    /\ instances' = r.w.instances
    /\ converter_cache' = r.w.cache
    /\ IF r.f.pc = "done"
       THEN calls' = [calls EXCEPT ![t] = NoCall] /\ last' = Outcome(r.f)
       ELSE calls' = [calls EXCEPT ![t] = r.f] /\ UNCHANGED last
    /\ UNCHANGED <<keyvars, adaptervars, latervars>>

\* Thread t enters objects[o].convert(...) and reads the cache.
Begin(t, o, text, extensions, admonitions, kwargs) ==
    /\ calls[t].pc = "idle"
    /\ Apply(t, StepLookup(World, Frame(o, text, extensions, admonitions, kwargs)))

\* Thread t converts with the cached converter it found.
Hit(t) == calls[t].pc = "hit" /\ Apply(t, StepHit(World, calls[t]))

\* Thread t constructs a converter into self.converter.
Build(t) == calls[t].pc = "build" /\ Apply(t, StepBuild(World, calls[t]))

\* Thread t converts with self.converter.
Run(t) == calls[t].pc = "run" /\ Apply(t, StepRun(World, calls[t]))

\* Thread t stores self.converter under its key and returns.
Store(t) == calls[t].pc = "store" /\ Apply(t, StepStore(World, calls[t]))

ConcurrentNext ==
    \/ \E engine \in EngineNames, cache_enabled \in BOOLEAN : New(engine, cache_enabled)
    \/ \E t \in Threads, o \in 1..Len(objects), text \in {"t1"},
          extensions \in ExtensionArgs, admonitions \in {FALSE}, kwargs \in KwargsArgs :
            Begin(t, o, text, extensions, admonitions, kwargs)
    \/ \E t \in Threads : Hit(t)
    \/ \E t \in Threads : Build(t)
    \/ \E t \in Threads : Run(t)
    \/ \E t \in Threads : Store(t)

\* Threads call convert concurrently; a thread switch may fall between any two
\* steps of a call.
ConcurrentSpec == Init /\ [][ConcurrentNext]_vars

\* ------------------------------------------------ the caller's arguments

\* module.Extension of a custom extension file (mdparser.py:94).
LoadedExtension == "Extension"

\* custom_extensions in the calls of a run; the file missing.py does not exist.
CustomExtensionArgs == {PyNone, PyList(<<"ext.py">>), PyList(<<"missing.py">>)}

\* The list objects a caller makes for extensions and for the keyword option
\* extras; PyNone: None is passed for extensions, extras is not passed.
ArgumentLists == {PyNone, PyList(<<>>), PyList(<<"toc">>)}

\* convert, mdparser.py:96-144, on objects[o] with the caller's list objects:
\* extensions, and extras passed as a keyword option.  The result carries,
\* besides the call's frame, the contents of the caller's two objects when the
\* call returns or raises.  A list is the caller's object as long as the local
\* name still refers to it: extensions is rebound at line 126, `extensions or
\* []` (line 175) is the same object for a non-empty list, and
\* kwargs.pop("extras", []) (line 205) is the caller's list whenever the option
\* was passed.  With the cache enabled a list that holds a loaded extension,
\* in extensions or in extras, makes _get_cache_key raise TypeError (sorted()
\* against a str, or json.dumps of an object that is not serializable).
MarkdownConverter_convert(w, o, text, extensions, admonitions, custom_extensions, extras) ==
    LET self == w.objects[o]
        kwargs == IF extras.kind = "list" THEN <<<<"extras", extras>>>> ELSE <<>>
        custom == Truthy(custom_extensions)
        missing == custom /\ Contains(custom_extensions.items, "missing.py")
        loaded_extensions ==
            [i \in 1..Len(custom_extensions.items) |-> LoadedExtension]
        extended ==
            IF custom /\ ~missing /\ Truthy(extensions)
            THEN PyList(extensions.items \o loaded_extensions)
            ELSE extensions
        rebound == custom /\ ~missing /\ ~Truthy(extensions)
        local == IF rebound THEN PyList(loaded_extensions) ELSE extended
        f == Frame(o, text, local, admonitions, kwargs)
        unserializable ==
            /\ self.cache_enabled
            /\ \/ Contains(local.items, LoadedExtension)
               \/ Contains(extras.items, LoadedExtension)
        r == IF missing THEN Raise(w, f, "FileNotFoundError")
             ELSE IF unserializable THEN Raise(w, f, "TypeError")
             ELSE RunToCompletion(w, f)
        engine_called == ~missing /\ ~unserializable /\ ~r.f.hit
        plan == _convert_with_engine(self.engine, local, admonitions, kwargs)
    IN [w |-> r.w, f |-> r.f,
        extensions |->
            IF engine_called /\ self.engine = "python-markdown" /\ ~rebound
               /\ Truthy(local) /\ plan.error = "none"
            THEN PyList(plan.extensions)
            ELSE extended,
        extras |->
            IF engine_called /\ self.engine = "markdown2" /\ extras.kind = "list"
               /\ plan.error = "none"
            THEN PyList(plan.extensions)
            ELSE extras]

\* The caller makes the objects it is going to pass in the calls of the run.
Prepare(extensions, extras) ==
    /\ Idle
    /\ arguments = NoArguments
    /\ arguments' = [NoArguments EXCEPT !.extensions = extensions, !.extras = extras]
    /\ UNCHANGED <<cachevars, keyvars, adaptervars, parservars, stagevars>>

\* objects[o].convert(text, extensions, admonitions, custom_extensions,
\* extras=extras) with the objects the caller holds, run to its end.  repeated:
\* the call before this one passed the same objects to the same converter with
\* the same admonitions and custom_extensions.
ConvertArguments(o, text, admonitions, custom_extensions) ==
    /\ Idle
    /\ arguments.calls < MaxCalls
    /\ \E r \in {MarkdownConverter_convert(World, o, text, arguments.extensions,
                                           admonitions, custom_extensions,
                                           arguments.extras)} :
          /\ Len(r.w.instances) <= MaxInstances
          /\ objects' = r.w.objects
          /\ instances' = r.w.instances
          /\ converter_cache' = r.w.cache
          /\ last' = Outcome(r.f)
          /\ arguments' =
                [extensions |-> r.extensions, extras |-> r.extras,
                 calls |-> arguments.calls + 1,
                 passed |-> [extensions |-> arguments.extensions,
                             extras |-> arguments.extras],
                 how |-> <<o, admonitions, custom_extensions>>,
                 cache_key |-> r.f.cache_key,
                 repeated |-> arguments.calls > 0
                              /\ arguments.how = <<o, admonitions, custom_extensions>>,
                 earlier_key |-> arguments.cache_key]
    /\ UNCHANGED <<calls, keyvars, adaptervars, parservars, stagevars>>

\* One converter, and one pair of argument objects passed to it MaxCalls times.
CallerNext ==
    \/ \E engine \in EngineNames, cache_enabled \in BOOLEAN :
          objects = <<>> /\ New(engine, cache_enabled)
    \/ \E extensions \in ArgumentLists, extras \in ArgumentLists :
          Prepare(extensions, extras)
    \/ \E o \in 1..Len(objects), admonitions \in BOOLEAN,
          custom_extensions \in CustomExtensionArgs :
            ConvertArguments(o, "t1", admonitions, custom_extensions)

\* Calls of convert with argument objects the caller keeps and passes again.
CallerSpec == Init /\ [][CallerNext]_vars

\* ------------------------------------------------------- the cache key

\* Extensions arguments whose key is computed: None and every list of at most
\* MaxExtLen names.
KeyExtensionArgs ==
    {PyNone} \cup {PyList(l) : l \in UNION {[1..n -> ExtNames] : n \in 0..MaxExtLen}}

\* Keyword options a caller passes through **kwargs, with one value each.
OptionItems == {<<"engine", PyStr("mistune")>>, <<"extras", PyList(<<"toc">>)>>}

\* **kwargs: the dicts over OptionItems, in every insertion order.
KeyKwargsArgs ==
    {d \in UNION {[1..n -> OptionItems] : n \in 0..Cardinality(OptionItems)} :
        \A i, j \in 1..Len(d) : i # j => d[i][1] # d[j][1]}

KeyInit ==
    /\ InitCache
    /\ InitAdapters
    /\ InitLater
    /\ key_args \in [engine : {SUPPORTED_ENGINES[i] : i \in 1..Len(SUPPORTED_ENGINES)},
                     extensions : KeyExtensionArgs, kwargs : KeyKwargsArgs]
    /\ key_result = NoKey

\* self._get_cache_key(extensions, **kwargs) on a converter of key_args.engine
ComputeKey ==
    /\ key_result = NoKey
    /\ key_result' = _get_cache_key(key_args.engine, key_args.extensions, key_args.kwargs)
    /\ UNCHANGED <<key_args, cachevars, adaptervars, latervars>>

\* _get_cache_key applied to every argument triple of the bounded sets.
KeySpec == KeyInit /\ [][ComputeKey]_vars

\* ------------------------------------------------------- the adapters

\* The optional backend libraries an environment may or may not have.
Libraries == {"marko", "htmd", "bleach", "bs4"}

\* importlib.util.find_spec(<library>) is not None, evaluated at import.
BS4_AVAILABLE == "bs4" \in installed

BLEACH_AVAILABLE == "bleach" \in installed

HTMD_AVAILABLE == "htmd" \in installed

\* raise ImportError(msg): the library msg says is not installed and the
\* package msg says to pip install (names compared without letter case).
ImportError(adapter, not_installed, install) ==
    [adapter |-> adapter, type |-> "ImportError",
     not_installed |-> not_installed, install |-> install]

\* The constructor returned.
Constructed(adapter) == [NoError EXCEPT !.adapter = adapter]

\* An adapter object and the attributes its own constructor has assigned.
Adapter(class, attributes) == [class |-> class, attributes |-> attributes]

\* The outcome of one constructor call: the error it raised, or the object.
Construct(error, adapter) ==
    /\ raised' = error
    /\ IF error.type = "none"
       THEN Len(adapters) < MaxAdapters /\ adapters' = Append(adapters, adapter)
       ELSE UNCHANGED adapters
    /\ UNCHANGED <<installed, cachevars, keyvars, latervars>>

\* MarkoParser(...)
MarkoParser_init ==
    IF "marko" \notin installed
    THEN Construct(ImportError("MarkoParser", "marko", "marko"), Adapter("", {}))
    ELSE Construct(Constructed("MarkoParser"),
                   Adapter("MarkoParser", {"_features", "_extensions", "_codehilite_options", "_parser"}))

\* HtmdConverter(...)
HtmdConverter_init ==
    IF ~HTMD_AVAILABLE
    THEN Construct(ImportError("HtmdConverter", "htmd", "htmd-py"), Adapter("", {}))
    ELSE Construct(Constructed("HtmdConverter"),
                   Adapter("HtmdConverter", {"_preformatted_code"}))

\* SanitizeHTMLProcessor(...)
SanitizeHTMLProcessor_init ==
    IF ~BLEACH_AVAILABLE
    THEN Construct(ImportError("SanitizeHTMLProcessor", "bleach", "bleach"),
                   Adapter("", {}))
    ELSE Construct(Constructed("SanitizeHTMLProcessor"),
                   Adapter("SanitizeHTMLProcessor",
                           {"allowed_tags", "allowed_attributes",
                            "allowed_protocols", "strip", "strip_comments"}))

\* Prettify(...)
Prettify_init ==
    IF ~BS4_AVAILABLE
    THEN Construct(ImportError("Prettify", "bleach", "bs4"), Adapter("", {}))
    ELSE Construct(Constructed("Prettify"),
                   Adapter("Prettify",
                           {"allowed_tags", "allowed_attributes",
                            "allowed_protocols", "strip", "strip_comments"}))

\* Any set of the optional libraries may be installed; no adapter exists yet.
AdapterInit ==
    /\ InitCache
    /\ InitKey
    /\ InitLater
    /\ installed \in SUBSET Libraries
    /\ adapters = <<>>
    /\ raised = NoError

AdapterNext ==
    \/ MarkoParser_init
    \/ HtmdConverter_init
    \/ SanitizeHTMLProcessor_init
    \/ Prettify_init

\* Adapters are constructed one after another in an environment whose
\* installed libraries do not change.
AdapterSpec == AdapterInit /\ [][AdapterNext]_vars

\* ------------------------------------------------- the parser adapters

\* Option names a caller of the unified interface may pass to a backend.
OptionNames == {"gfm", "tables", "footnotes", "math", "enable_tables"}

\* **options of one call: at most MaxOptions names, each True or False.
OptionArgs ==
    UNION {[S -> BOOLEAN] : S \in {T \in SUBSET OptionNames : Cardinality(T) <= MaxOptions}}

\* options.get(name, default)
OptionGet(options, name, default) ==
    IF name \in DOMAIN options THEN options[name] ELSE default

\* The options without one name.
OptionsWithout(options, name) == [n \in DOMAIN options \ {name} |-> options[n]]

\* list.remove(x): the list without the first occurrence of x.
RECURSIVE ListRemove(_, _)
ListRemove(l, x) ==
    IF l = <<>> THEN <<>>
    ELSE IF Head(l) = x THEN Tail(l)
    ELSE <<Head(l)>> \o ListRemove(Tail(l), x)

\* A backend engine as configured: the extension list and the flags handed
\* to it, whether GFM was switched on, the keyword arguments passed through.
Engine(extensions, flags, gfm, kwargs) ==
    [extensions |-> extensions, flags |-> flags, gfm |-> gfm, kwargs |-> kwargs]

NoEngine == Engine(<<>>, {}, FALSE, {})

\* The outcome of a conversion call on a parser adapter.  used tells whether
\* the stored or a temporary parser converted, held whether the stored parser
\* held state of an earlier document when the call began, stale whether the
\* parser that converted held such state when it converted.
ParserCall(adapter, options, error, engine) ==
    [adapter |-> adapter, options |-> options, error |-> error, engine |-> engine,
     used |-> "", held |-> FALSE, stale |-> FALSE]

\* comrak markdown_to_html: its boolean keyword parameters.
ComrakFlags ==
    {"strikethrough", "tagfilter", "table", "autolink", "tasklist", "superscript",
     "footnotes", "description_lists", "multiline_block_quotes", "alerts", "math",
     "shortcodes", "wikilinks", "underline", "subscript", "spoiler", "smart",
     "relaxed_tasklist_matching", "relaxed_autolinks", "hardbreaks",
     "github_pre_lang", "full_info_string", "unsafe_", "escape", "sourcepos"}

\* comrak markdown_to_html(text, **options): every name that is no parameter
\* is taken by **kwargs and not used.
comrak_markdown_to_html(options) ==
    ParserCall("comrak", options, "none",
               Engine(<<>>,
                      {f \in ComrakFlags : OptionGet(options, f, f = "alerts")},
                      FALSE, {}))

\* pyromark markdown_to_html: its keyword parameters that set an Options flag.
PyromarkFlags ==
    {"enable_tables", "enable_footnotes", "enable_strikethrough", "enable_tasklists",
     "enable_smart_punctuation", "enable_heading_attributes",
     "enable_yaml_style_metadata_blocks", "enable_pluses_delimited_metadata_blocks",
     "enable_old_footnotes", "enable_math", "enable_gfm", "enable_definition_list",
     "enable_superscript", "enable_subscript", "enable_wikilinks"}

\* pyromark markdown_to_html(text, **options): the signature has no **kwargs,
\* so a name that is no parameter is a TypeError of the call.
pyromark_markdown_to_html(options) ==
    IF DOMAIN options \subseteq PyromarkFlags \cup {"convert_admonitions"}
    THEN ParserCall("pyromark", options, "none",
                    Engine(<<>>,
                           {f \in PyromarkFlags : OptionGet(options, f, f = "enable_gfm")},
                           FALSE, {}))
    ELSE ParserCall("pyromark", options, "TypeError", NoEngine)

\* A parser adapter object; config holds the constructor's arguments, stale
\* tells whether the stored parser holds state that a converted document
\* left in it (references, footnotes, ...).
ParserObject(class, config, features, extensions, engine) ==
    [class |-> class, config |-> config, _features |-> features,
     _extensions |-> extensions, _parser |-> engine, stale |-> FALSE]

\* MarkoParser(**config), marko installed: the feature flags, the extension
\* list and the stored engine.
MarkoParser_new(config) ==
    LET e1 == IF ~config.gfm /\ config.tables THEN <<"tables">> ELSE <<>>
        e2 == IF ~config.gfm /\ config.strikethrough THEN Append(e1, "strikethrough") ELSE e1
        e3 == IF ~config.gfm /\ config.tasklists THEN Append(e2, "tasklist") ELSE e2
        e4 == IF config.footnotes THEN Append(e3, "footnote") ELSE e3
        e5 == IF config.toc THEN Append(e4, "toc") ELSE e4
    IN ParserObject("MarkoParser", config,
                    [gfm |-> config.gfm, footnotes |-> config.footnotes,
                     pangu |-> FALSE, codehilite |-> FALSE, toc |-> config.toc],
                    e5, Engine(e5, {}, config.gfm, {}))

\* MarkoParser.convert: common_options, option name -> extension name, in the
\* order of the dict display.
MarkoCommonOptions ==
    << <<"tables", "tables">>, <<"table", "tables">>, <<"footnotes", "footnote">>,
       <<"footnote", "footnote">>, <<"strikethrough", "strikethrough">>,
       <<"tasklist", "tasklist">>, <<"tasklists", "tasklist">>, <<"pangu", "pangu">>,
       <<"codehilite", "codehilite">>, <<"toc", "toc">> >>

\* The extensions GFM brings along.
GfmImplied == {"tables", "strikethrough", "tasklist"}

\* The loop over the option -> extension pairs: an option given True adds its
\* extension unless present, one given False removes it if present.
RECURSIVE ApplyCommonOptions(_, _, _)
ApplyCommonOptions(pairs, options, extensions) ==
    IF pairs = <<>> THEN extensions
    ELSE LET option == Head(pairs)[1]
             ext_name == Head(pairs)[2]
             next ==
                 IF option \notin DOMAIN options THEN extensions
                 ELSE IF options[option] /\ ~Contains(extensions, ext_name)
                 THEN Append(extensions, ext_name)
                 ELSE IF ~options[option] /\ Contains(extensions, ext_name)
                 THEN ListRemove(extensions, ext_name)
                 ELSE extensions
         IN ApplyCommonOptions(Tail(pairs), options, next)

\* MarkoParser.convert working on self._extensions itself instead of a copy of
\* the list: what the call appends or removes stays in the adapter.
MarkoParser_convert_in_place(self, options) ==
    IF DOMAIN options = {}
    THEN [self |-> self, call |-> ParserCall("MarkoParser", options, "none", self._parser)]
    ELSE LET gfm == OptionGet(options, "gfm", self._features.gfm)
             pairs == IF ~gfm THEN MarkoCommonOptions
                      ELSE SelectSeq(MarkoCommonOptions, LAMBDA q : q[2] \notin GfmImplied)
             extensions == ApplyCommonOptions(pairs, options, self._extensions)
         IN [self |-> [self EXCEPT !._extensions = extensions],
             call |-> ParserCall("MarkoParser", options, "none",
                                 Engine(extensions, {}, gfm, {}))]

\* MarkoParser.convert(text, **options): the adapter afterwards and the call
\* with the engine that converted.
MarkoParser_convert(self, options) ==
    IF DOMAIN options = {}
    THEN [self |-> self, call |-> ParserCall("MarkoParser", options, "none", self._parser)]
    ELSE LET gfm == OptionGet(options, "gfm", self._features.gfm)
             copied == self._extensions
             pairs == IF ~gfm THEN MarkoCommonOptions
                      ELSE SelectSeq(MarkoCommonOptions, LAMBDA q : q[2] \notin GfmImplied)
             extensions == ApplyCommonOptions(pairs, options, copied)
         IN [self |-> self,
             call |-> ParserCall("MarkoParser", options, "none",
                                 Engine(extensions, {}, gfm, {}))]

\* PythonMarkdownParser(extensions): the stored list and the stored parser.
PythonMarkdownParser_new(extensions) ==
    LET stored == IF Truthy(extensions) THEN extensions.items ELSE <<>>
    IN ParserObject("PythonMarkdownParser", extensions,
                    [gfm |-> FALSE, footnotes |-> FALSE, pangu |-> FALSE,
                     codehilite |-> FALSE, toc |-> FALSE],
                    stored, Engine(stored, {}, FALSE, {}))

\* PythonMarkdownParser.convert: the options mapped to extensions, in the
\* order of the if statements.
PythonMarkdownOptions ==
    << <<"strikethrough", "pymdownx.tilde">>, <<"table", "tables">>,
       <<"autolink", "pymdownx.magiclink">>, <<"tasklist", "pymdownx.tasklist">>,
       <<"math", "pymdownx.arithmatex">> >>

RECURSIVE AppendRequested(_, _, _)
AppendRequested(pairs, options, extensions) ==
    IF pairs = <<>> THEN extensions
    ELSE AppendRequested(
             Tail(pairs), options,
             IF OptionGet(options, Head(pairs)[1], FALSE)
             THEN Append(extensions, Head(pairs)[2]) ELSE extensions)

\* PythonMarkdownParser.convert without the reset of the stored parser.
PythonMarkdownParser_convert_unreset(self, options) ==
    IF DOMAIN options = {}
    THEN LET reset == self
         IN [self |-> [reset EXCEPT !.stale = TRUE],
             call |-> [ParserCall("PythonMarkdownParser", options, "none", self._parser)
                          EXCEPT !.used = "stored", !.held = self.stale,
                                 !.stale = reset.stale]]
    ELSE LET extensions == AppendRequested(PythonMarkdownOptions, options, self._extensions)
             handled == {PythonMarkdownOptions[i][1] : i \in 1..Len(PythonMarkdownOptions)}
                            \cup {"extension_configs", "output_format"}
         IN [self |-> self,
             call |-> [ParserCall("PythonMarkdownParser", options, "none",
                                  Engine(extensions, {}, FALSE, DOMAIN options \ handled))
                          EXCEPT !.used = "temporary", !.held = self.stale]]

\* PythonMarkdownParser.convert(text, **options): without options the stored
\* parser is reset and converts; with options a temporary parser converts.
PythonMarkdownParser_convert(self, options) ==
    IF DOMAIN options = {}
    THEN LET reset == [self EXCEPT !.stale = FALSE]
         IN [self |-> [reset EXCEPT !.stale = TRUE],
             call |-> [ParserCall("PythonMarkdownParser", options, "none", self._parser)
                          EXCEPT !.used = "stored", !.held = self.stale,
                                 !.stale = reset.stale]]
    ELSE LET extensions == AppendRequested(PythonMarkdownOptions, options, self._extensions)
             handled == {PythonMarkdownOptions[i][1] : i \in 1..Len(PythonMarkdownOptions)}
                            \cup {"extension_configs", "output_format"}
         IN [self |-> self,
             call |-> [ParserCall("PythonMarkdownParser", options, "none",
                                  Engine(extensions, {}, FALSE, DOMAIN options \ handled))
                          EXCEPT !.used = "temporary", !.held = self.stale]]

\* Constructor arguments of the MarkoParser objects of a run.
MarkoConfigs ==
    [tables : BOOLEAN, strikethrough : BOOLEAN, tasklists : BOOLEAN,
     footnotes : BOOLEAN, gfm : BOOLEAN, toc : {FALSE}]

\* MarkoParser(**config)
NewMarkoParser(config) ==
    /\ parser = NoParser
    /\ "marko" \in installed
    /\ parser' = MarkoParser_new(config)
    /\ UNCHANGED <<pcall, cachevars, keyvars, adaptervars, stagevars, arguments>>

\* PythonMarkdownParser(extensions)
NewPythonMarkdownParser(extensions) ==
    /\ parser = NoParser
    /\ parser' = PythonMarkdownParser_new(extensions)
    /\ UNCHANGED <<pcall, cachevars, keyvars, adaptervars, stagevars, arguments>>

\* parser.convert(text, **options)
MarkoConvert(options) ==
    /\ parser.class = "MarkoParser"
    /\ \E r \in {MarkoParser_convert(parser, options)} :
          parser' = r.self /\ pcall' = r.call
    /\ UNCHANGED <<cachevars, keyvars, adaptervars, stagevars, arguments>>

PythonMarkdownConvert(options) ==
    /\ parser.class = "PythonMarkdownParser"
    /\ \E r \in {PythonMarkdownParser_convert(parser, options)} :
          parser' = r.self /\ pcall' = r.call
    /\ UNCHANGED <<cachevars, keyvars, adaptervars, stagevars, arguments>>

\* comrak_parser.markdown_to_html(text, **options)
ComrakToHtml(options) ==
    /\ pcall' = comrak_markdown_to_html(options)
    /\ UNCHANGED <<parser, cachevars, keyvars, adaptervars, stagevars, arguments>>

\* pyromark_parser.markdown_to_html(text, **options)
PyromarkToHtml(options) ==
    /\ pcall' = pyromark_markdown_to_html(options)
    /\ UNCHANGED <<parser, cachevars, keyvars, adaptervars, stagevars, arguments>>

\* Every optional library installed, no parser adapter constructed yet.
ParserInit ==
    /\ InitCache
    /\ InitKey
    /\ installed = Libraries
    /\ adapters = <<>>
    /\ raised = NoError
    /\ InitLater

ParserNext ==
    \/ \E config \in MarkoConfigs : NewMarkoParser(config)
    \/ \E extensions \in {PyNone, PyList(<<"tables">>)} : NewPythonMarkdownParser(extensions)
    \/ \E options \in OptionArgs : MarkoConvert(options)
    \/ \E options \in OptionArgs : PythonMarkdownConvert(options)

\* One parser adapter is constructed and convert is called on it again and
\* again.
ParserSpec == ParserInit /\ [][ParserNext]_vars

FunctionNext ==
    \/ \E options \in OptionArgs : ComrakToHtml(options)
    \/ \E options \in OptionArgs : PyromarkToHtml(options)

\* Calls of the two markdown_to_html functions, one after another.
FunctionSpec == ParserInit /\ [][FunctionNext]_vars

\* ----------------------------------------------------- the sanitizers

\* importlib.util.find_spec("nh3") is not None, evaluated at import.
NH3_AVAILABLE == "nh3" \in installed

\* What a create_sanitizer call gave: the sanitizer object with the arguments
\* it was constructed with, or the error raised with the backends its message
\* names; call holds the arguments of the call.
FactoryResult(call, class, error, names) ==
    [op |-> "create_sanitizer", call |-> call, class |-> class,
     tags |-> IF class = "" THEN PyNone ELSE call.tags,
     strip_comments |-> IF class = "" THEN FALSE ELSE call.strip_comments,
     error |-> error, names |-> names]

\* create_sanitizer that never looks at sanitizer_name.
create_sanitizer_unnamed(tags, strip_comments, sanitizer_name) ==
    LET call == [tags |-> tags, strip_comments |-> strip_comments,
                 sanitizer_name |-> sanitizer_name]
    IN IF NH3_AVAILABLE THEN FactoryResult(call, "NH3Sanitizer", "none", {})
       ELSE IF BLEACH_AVAILABLE THEN FactoryResult(call, "BleachSanitizer", "none", {})
       ELSE FactoryResult(call, "", "ImportError", {"nh3", "bleach"})

\* create_sanitizer that gives up when the named backend is not available.
create_sanitizer_named_or_fail(tags, strip_comments, sanitizer_name) ==
    LET call == [tags |-> tags, strip_comments |-> strip_comments,
                 sanitizer_name |-> sanitizer_name]
    IN IF sanitizer_name = PyStr("nh3") /\ NH3_AVAILABLE
       THEN FactoryResult(call, "NH3Sanitizer", "none", {})
       ELSE IF sanitizer_name = PyStr("bleach") /\ BLEACH_AVAILABLE
       THEN FactoryResult(call, "BleachSanitizer", "none", {})
       ELSE IF sanitizer_name # PyNone
       THEN FactoryResult(call, "", "ImportError", {"nh3", "bleach"})
       ELSE IF NH3_AVAILABLE THEN FactoryResult(call, "NH3Sanitizer", "none", {})
       ELSE IF BLEACH_AVAILABLE THEN FactoryResult(call, "BleachSanitizer", "none", {})
       ELSE FactoryResult(call, "", "ImportError", {"nh3", "bleach"})

\* create_sanitizer(tags=..., strip_comments=..., sanitizer_name=...)
create_sanitizer(tags, strip_comments, sanitizer_name) ==
    LET call == [tags |-> tags, strip_comments |-> strip_comments,
                 sanitizer_name |-> sanitizer_name]
    IN IF sanitizer_name = PyStr("nh3") /\ NH3_AVAILABLE
       THEN FactoryResult(call, "NH3Sanitizer", "none", {})
       ELSE IF sanitizer_name = PyStr("bleach") /\ BLEACH_AVAILABLE
       THEN FactoryResult(call, "BleachSanitizer", "none", {})
       ELSE IF NH3_AVAILABLE THEN FactoryResult(call, "NH3Sanitizer", "none", {})
       ELSE IF BLEACH_AVAILABLE THEN FactoryResult(call, "BleachSanitizer", "none", {})
       ELSE FactoryResult(call, "", "ImportError", {"nh3", "bleach"})

\* Allow-lists a caller passes: left out, empty, or naming something.
AllowLists(item) == {PyNone, PyList(<<>>), PyList(<<item>>)}

\* bleach.ALLOWED_TAGS, bleach.ALLOWED_ATTRIBUTES, bleach.ALLOWED_PROTOCOLS:
\* the engine's own default allow-list.
BleachDefault(what) == PyStr("bleach.ALLOWED_" \o what)

\* x or default
Or(x, default) == IF Truthy(x) THEN x ELSE default

\* An HTML text as its tokens.  A tag has a name and at most one attribute,
\* whose value may be a URL with a protocol; a text token is plain (level 0)
\* or markup escaped level times ("&lt;b&gt;" is <b> escaped once,
\* "&amp;lt;b&amp;gt;" twice).
HtmlToken(kind, name, attr, protocol, level) ==
    [kind |-> kind, name |-> name, attr |-> attr, protocol |-> protocol, level |-> level]

HtmlTokens ==
    {HtmlToken("tag", "b", "", "", 0),
     HtmlToken("tag", "script", "", "", 0),
     HtmlToken("tag", "a", "href", "https", 0),
     HtmlToken("tag", "a", "href", "javascript", 0),
     HtmlToken("comment", "c", "", "", 0)}

\* bleach.clean(html, tags=..., attributes=..., protocols=..., strip=...,
\* strip_comments=...): a tag on the allow-list stays, with its attribute if
\* that and its protocol are allowed; another tag is dropped (strip) or
\* escaped into text; a comment is dropped (strip_comments) or stays; text
\* stays.
RECURSIVE bleach_clean(_, _, _, _, _, _)
bleach_clean(html, tags, attributes, protocols, strip, strip_comments) ==
    IF html = <<>> THEN <<>>
    ELSE LET t == Head(html)
             tag_ok == IF tags = BleachDefault("TAGS") THEN t.name \in {"a", "b"}
                       ELSE Contains(tags.items, t.name)
             attr_ok == /\ IF attributes = BleachDefault("ATTRIBUTES")
                           THEN t.attr \in {"href", "title"}
                           ELSE Contains(attributes.items, t.attr)
                        /\ IF protocols = BleachDefault("PROTOCOLS")
                           THEN t.protocol \in {"http", "https", "mailto"}
                           ELSE Contains(protocols.items, t.protocol)
             cleaned ==
                 IF t.kind = "text" THEN <<t>>
                 ELSE IF t.kind = "comment"
                 THEN IF strip_comments THEN <<>> ELSE <<t>>
                 ELSE IF tag_ok
                 THEN IF t.attr = "" \/ attr_ok THEN <<t>>
                      ELSE <<HtmlToken("tag", t.name, "", "", 0)>>
                 ELSE IF strip THEN <<>>
                 ELSE <<HtmlToken("text", t.name, "", "", 1)>>
         IN cleaned \o bleach_clean(Tail(html), tags, attributes, protocols,
                                    strip, strip_comments)

\* SanitizeHTMLProcessor(allowed_tags, allowed_attributes, allowed_protocols,
\* strip, strip_comments), bleach installed; handed holds what process_html
\* passed to bleach.clean, input and output the HTML of the last call.
SanitizeHTMLProcessor_new(allowed_tags, allowed_attributes, allowed_protocols, strip, strip_comments) ==
    [op |-> "SanitizeHTMLProcessor", class |-> "SanitizeHTMLProcessor",
     allowed_tags |-> allowed_tags, allowed_attributes |-> allowed_attributes,
     allowed_protocols |-> allowed_protocols, strip |-> strip,
     strip_comments |-> strip_comments, cleaned |-> FALSE,
     handed |-> [tags |-> PyNone, attributes |-> PyNone, protocols |-> PyNone],
     input |-> <<>>, output |-> <<>>]

\* html.escape(markup): tags become text, escaped text is escaped once more.
RECURSIVE html_escape(_)
html_escape(html) ==
    IF html = <<>> THEN <<>>
    ELSE <<IF Head(html).kind = "text" /\ Head(html).level = 0 THEN Head(html)
           ELSE HtmlToken("text", Head(html).name, "", "", Head(html).level + 1)>>
         \o html_escape(Tail(html))

\* SanitizeHTMLProcessor.process_html escaping what bleach.clean returned.
SanitizeHTMLProcessor_process_html_escaped(self, html) ==
    LET handed == [tags |-> Or(self.allowed_tags, BleachDefault("TAGS")),
                   attributes |-> Or(self.allowed_attributes, BleachDefault("ATTRIBUTES")),
                   protocols |-> Or(self.allowed_protocols, BleachDefault("PROTOCOLS"))]
    IN [self EXCEPT
           !.cleaned = TRUE,
           !.handed = handed,
           !.input = html,
           !.output = html_escape(bleach_clean(html, handed.tags, handed.attributes,
                                               handed.protocols, self.strip,
                                               self.strip_comments))]

\* SanitizeHTMLProcessor.process_html(html): the keyword arguments of the
\* bleach.clean call and what the call returns.
SanitizeHTMLProcessor_process_html(self, html) ==
    LET handed == [tags |-> Or(self.allowed_tags, BleachDefault("TAGS")),
                   attributes |-> Or(self.allowed_attributes, BleachDefault("ATTRIBUTES")),
                   protocols |-> Or(self.allowed_protocols, BleachDefault("PROTOCOLS"))]
    IN [self EXCEPT
           !.cleaned = TRUE,
           !.handed = handed,
           !.input = html,
           !.output = bleach_clean(html, handed.tags, handed.attributes,
                                   handed.protocols, self.strip, self.strip_comments)]

CreateSanitizer(tags, strip_comments, sanitizer_name) ==
    /\ sanitizer' = create_sanitizer(tags, strip_comments, sanitizer_name)
    /\ UNCHANGED <<pipeline, title, parservars, cachevars, keyvars, adaptervars, arguments>>

NewSanitizeHTMLProcessor(allowed_tags, allowed_attributes, allowed_protocols, strip, strip_comments) ==
    /\ BLEACH_AVAILABLE
    /\ sanitizer' = SanitizeHTMLProcessor_new(allowed_tags, allowed_attributes,
                                              allowed_protocols, strip, strip_comments)
    /\ UNCHANGED <<pipeline, title, parservars, cachevars, keyvars, adaptervars, arguments>>

ProcessHtml(html) ==
    /\ sanitizer.class = "SanitizeHTMLProcessor"
    /\ BLEACH_AVAILABLE
    /\ sanitizer' = SanitizeHTMLProcessor_process_html(sanitizer, html)
    /\ UNCHANGED <<pipeline, title, parservars, cachevars, keyvars, adaptervars, arguments>>

\* Any of nh3 and bleach may be installed.
SanitizerInit ==
    /\ InitCache
    /\ InitKey
    /\ InitLater
    /\ installed \in SUBSET {"nh3", "bleach"}
    /\ adapters = <<>>
    /\ raised = NoError

SanitizerNext ==
    \/ \E tags \in AllowLists("b"), strip_comments \in BOOLEAN,
          sanitizer_name \in {PyNone, PyStr("nh3"), PyStr("bleach"), PyStr("lxml")} :
          CreateSanitizer(tags, strip_comments, sanitizer_name)
    \/ \E allowed_tags \in AllowLists("b"), allowed_attributes \in AllowLists("href"),
          allowed_protocols \in AllowLists("https") :
          NewSanitizeHTMLProcessor(allowed_tags, allowed_attributes, allowed_protocols,
                                   TRUE, TRUE)
    \/ \E html \in {<<HtmlToken("tag", "b", "", "", 0)>>} : ProcessHtml(html)

\* Sanitizers are created and sanitizing stages are constructed and run, in
\* an environment whose installed libraries do not change.
SanitizerSpec == SanitizerInit /\ [][SanitizerNext]_vars

SanitizeNext ==
    \/ \E allowed_tags \in AllowLists("b"), allowed_attributes \in AllowLists("href"),
          allowed_protocols \in {PyNone, PyList(<<"https">>)},
          strip \in BOOLEAN, strip_comments \in BOOLEAN :
          NewSanitizeHTMLProcessor(allowed_tags, allowed_attributes, allowed_protocols,
                                   strip, strip_comments)
    \/ \E html \in UNION {[1..n -> HtmlTokens] : n \in 0..MaxTokens} : ProcessHtml(html)

\* bleach is installed, nh3 is not.
SanitizeInit == SanitizerInit /\ installed = {"bleach"}

\* With bleach installed, sanitizing stages of every configuration are
\* constructed and sanitize HTML texts.
SanitizeSpec == SanitizeInit /\ [][SanitizeNext]_vars

\* -------------------------------------------- the post-processing pipeline

\* The priorities stages declare.
Priorities == {10, 5, 1}

\* A registered stage: id is its place in the registration order, fails says
\* whether it fails with ProcessingError when it executes.
Stage(id, priority, fails) == [id |-> id, priority |-> priority, fails |-> fails]

\* A pipeline with its registered stages, not run.
Pipeline(stages) ==
    [class |-> "Pipeline", stages |-> stages, ran |-> FALSE, input |-> <<>>,
     log |-> <<>>, error |-> "none", failed |-> 0, html |-> <<>>]

\* Placing a stage in front of the stages of equal priority already placed.
RECURSIVE PlaceBeforeTies(_, _)
PlaceBeforeTies(ordered, stage) ==
    IF ordered = <<>> THEN <<stage>>
    ELSE IF Head(ordered).priority > stage.priority
    THEN <<Head(ordered)>> \o PlaceBeforeTies(Tail(ordered), stage)
    ELSE <<stage>> \o ordered

\* Placing a stage into a list in execution order: behind every stage of
\* higher or equal priority.
RECURSIVE Place(_, _)
Place(ordered, stage) ==
    IF ordered = <<>> THEN <<stage>>
    ELSE IF Head(ordered).priority >= stage.priority
    THEN <<Head(ordered)>> \o Place(Tail(ordered), stage)
    ELSE <<stage>> \o ordered

\* The execution order of the registered stages: a stable sort, descending
\* by priority.
RECURSIVE ExecutionOrder(_)
ExecutionOrder(stages) ==
    IF stages = <<>> THEN <<>>
    ELSE Place(ExecutionOrder(SubSeq(stages, 1, Len(stages) - 1)), stages[Len(stages)])

\* Executing the stages while passing over a failing one.
RECURSIVE ExecutePassingOver(_, _)
ExecutePassingOver(ordered, run) ==
    IF ordered = <<>> THEN run
    ELSE IF Head(ordered).fails
    THEN ExecutePassingOver(Tail(ordered),
                            [run EXCEPT !.log = Append(@, Head(ordered).id)])
    ELSE ExecutePassingOver(Tail(ordered),
                            [run EXCEPT !.log = Append(@, Head(ordered).id),
                                        !.html = Append(@, Head(ordered).id)])

\* Executing the stages in order: each receives the output of the one before
\* it; a stage failing with ProcessingError ends the run, the error goes to
\* the caller and no HTML is returned.
RECURSIVE Execute(_, _)
Execute(ordered, run) ==
    IF ordered = <<>> THEN run
    ELSE IF Head(ordered).fails
    THEN [run EXCEPT !.log = Append(@, Head(ordered).id),
                     !.error = "ProcessingError",
                     !.failed = Head(ordered).id,
                     !.html = <<>>]
    ELSE Execute(Tail(ordered),
                 [run EXCEPT !.log = Append(@, Head(ordered).id),
                             !.html = Append(@, Head(ordered).id)])

\* run(html, stages): html is the input followed by the ids of the stages
\* that processed it.
Pipeline_run(self, html) ==
    Execute(ExecutionOrder(self.stages),
            [Pipeline(self.stages) EXCEPT !.ran = TRUE, !.input = html, !.html = html])

\* A stage is registered with the pipeline.
Register(priority, fails) ==
    /\ Len(pipeline.stages) < MaxStages
    /\ pipeline' = Pipeline(Append(pipeline.stages,
                                   Stage(Len(pipeline.stages) + 1, priority, fails)))
    /\ UNCHANGED <<sanitizer, title, parservars, cachevars, keyvars, adaptervars, arguments>>

RunPipeline(html) ==
    /\ pipeline' = Pipeline_run(pipeline, html)
    /\ UNCHANGED <<sanitizer, title, parservars, cachevars, keyvars, adaptervars, arguments>>

PipelineInit ==
    /\ InitCache
    /\ InitKey
    /\ InitAdapters
    /\ InitParsers
    /\ sanitizer = NotYet
    /\ title = NotYet
    /\ arguments = NoArguments
    /\ pipeline = Pipeline(<<>>)

PipelineNext ==
    \/ \E priority \in Priorities, fails \in BOOLEAN : Register(priority, fails)
    \/ \E html \in {<<"<p>x</p>">>, <<"">>} : RunPipeline(html)

\* Stages are registered with a pipeline and the pipeline is run.
PipelineSpec == PipelineInit /\ [][PipelineNext]_vars

\* ------------------------------------------------------ title extraction

\* A text: the words and blanks (" ") of a string, in order.
Text(tokens) == [kind |-> "str", str |-> "", items |-> tokens]

\* str.strip(): the text without the blanks at its ends.
RECURSIVE Strip(_)
Strip(tokens) ==
    IF tokens = <<>> THEN <<>>
    ELSE IF Head(tokens) = " " THEN Strip(Tail(tokens))
    ELSE IF tokens[Len(tokens)] = " " THEN Strip(SubSeq(tokens, 1, Len(tokens) - 1))
    ELSE tokens

\* An element object: oid tells objects apart (the path from the root, with
\* a leading 0 per copy made).
Element(tag, text, tail, children) ==
    [tag |-> tag, text |-> text, tail |-> tail, children |-> children, oid |-> <<>>]

\* The elements the trees of a run are made of: a paragraph, and h1 headings
\* ending in an empty anchor, in an em, in an anchor with text, and in an
\* empty anchor with text behind it.
Elements ==
    {Element("p", <<"Intro">>, <<>>, <<>>),
     Element("h1", <<"Hello", " ">>, <<>>, <<Element("a", <<>>, <<>>, <<>>)>>),
     Element("h1", <<"Hello", " ">>, <<>>, <<Element("em", <<"World">>, <<>>, <<>>)>>),
     Element("h1", <<"Hello", " ">>, <<>>, <<Element("a", <<"Docs">>, <<>>, <<>>)>>),
     Element("h1", <<"Hello", " ">>, <<>>, <<Element("a", <<>>, <<"again">>, <<>>)>>)}

\* A tree: the elements under its root, each object with its identity.
Tree(elements) ==
    [i \in 1..Len(elements) |->
        [elements[i] EXCEPT
            !.oid = <<i>>,
            !.children = [j \in 1..Len(@) |-> [@[j] EXCEPT !.oid = <<i, j>>]]]]

Trees == {Tree(e) : e \in UNION {[1..n -> Elements] : n \in 0..MaxElements}}

\* self.find_elements(tree, ".//h1"): the elements with the tag, in document
\* order.
find_elements(tree, tag) == SelectSeq(tree, LAMBDA e : e.tag = tag)

\* self.get_text_content(element): its text and that of its descendants,
\* with the text behind each of them.
RECURSIVE TextOfChildren(_)
TextOfChildren(children) ==
    IF children = <<>> THEN <<>>
    ELSE Head(children).text \o Head(children).tail \o TextOfChildren(Tail(children))

get_text_content(element) == element.text \o TextOfChildren(element.children)

\* copy.copy(element): a new element holding the same child objects.
copy_copy(element) == [element EXCEPT !.oid = <<0>> \o @]

\* copy.deepcopy(element): a new element holding copies of the children.
deepcopy(element) ==
    [element EXCEPT
        !.oid = <<0>> \o @,
        !.children = [j \in 1..Len(@) |-> [@[j] EXCEPT !.oid = <<0>> \o @]]]

\* element.remove(subelement): removes that very object from the element's
\* children; ValueError if it is not among them.
Element_remove(element, subelement) ==
    IF \E j \in 1..Len(element.children) : element.children[j].oid = subelement.oid
    THEN [error |-> "none",
          element |-> [element EXCEPT
                          !.children = SelectSeq(@, LAMBDA c : c.oid # subelement.oid)]]
    ELSE [error |-> "ValueError", element |-> element]

\* A title processor after a process_tree call: given is the tree as passed
\* in, tree the same tree object after the call, returned what the call
\* returned (<<>> with raised: nothing), warning whether a warning was logged,
\* failing the helper call made to raise in the call.
Processed(self, tree, text, warning, raises) ==
    [class |-> self.class, title |-> text, called |-> TRUE, failing |-> "none",
     given |-> tree, tree |-> tree, returned |-> IF raises THEN <<>> ELSE tree,
     warning |-> warning, raised |-> raises]

\* The tree after an element object was changed: the object of that identity
\* in the tree, if there is one, has the element's new content.
WithElement(tree, element) ==
    [i \in 1..Len(tree) |-> IF tree[i].oid = element.oid THEN element ELSE tree[i]]

\* The outcome of a call in which an element object was changed on the way.
Mutated(result, element) ==
    [result EXCEPT !.tree = WithElement(@, element),
                   !.returned = IF result.raised THEN <<>> ELSE WithElement(result.tree, element)]

\* except Exception: the warning is logged and the tree returned.
Caught(self, tree) == Processed(self, tree, self.title, TRUE, FALSE)

\* No except clause: the exception leaves process_tree.
Uncaught(self, tree) == Processed(self, tree, self.title, FALSE, TRUE)

\* ExtractTitleETProcessor.process_tree without the try statement.
ExtractTitleETProcessor_process_tree_unguarded(self, tree, failing) ==
    IF failing = "find_elements" THEN Uncaught(self, tree)
    ELSE LET h1_elements == find_elements(tree, "h1")
         IN IF h1_elements = <<>> THEN Processed(self, tree, self.title, FALSE, FALSE)
            ELSE LET h1 == h1_elements[1]
                     trim == /\ Len(h1.children) > 0
                             /\ h1.children[Len(h1.children)].tag = "a"
                             /\ Strip(h1.children[Len(h1.children)].tail) = <<>>
                     copied == copy_copy(h1)
                     removed == Element_remove(copied, copied.children[Len(copied.children)])
                 IN IF trim /\ removed.error # "none" THEN Uncaught(self, tree)
                    ELSE IF failing = "get_text_content" THEN Uncaught(self, tree)
                    ELSE Processed(self, tree,
                                   Text(Strip(get_text_content(
                                       IF trim THEN removed.element ELSE h1))),
                                   FALSE, FALSE)

\* ExtractTitleETProcessor.process_tree removing the anchor from the h1 of the
\* tree itself instead of from a copy.
ExtractTitleETProcessor_process_tree_in_place(self, tree, failing) ==
    IF failing = "find_elements" THEN Caught(self, tree)
    ELSE LET h1_elements == find_elements(tree, "h1")
         IN IF h1_elements = <<>> THEN Processed(self, tree, self.title, FALSE, FALSE)
            ELSE LET h1 == h1_elements[1]
                     trim == /\ Len(h1.children) > 0
                             /\ h1.children[Len(h1.children)].tag = "a"
                             /\ Strip(h1.children[Len(h1.children)].tail) = <<>>
                     copied == h1
                     removed == Element_remove(copied, copied.children[Len(copied.children)])
                     done == IF failing = "get_text_content" THEN Caught(self, tree)
                             ELSE Processed(self, tree,
                                            Text(Strip(get_text_content(
                                                IF trim THEN removed.element ELSE h1))),
                                            FALSE, FALSE)
                 IN IF trim /\ removed.error # "none" THEN Caught(self, tree)
                    ELSE IF trim THEN Mutated(done, removed.element)
                    ELSE done

\* ExtractTitleETProcessor.process_tree(tree); failing names the helper call
\* that raises in this call, if any.
ExtractTitleETProcessor_process_tree(self, tree, failing) ==
    IF failing = "find_elements" THEN Caught(self, tree)
    ELSE LET h1_elements == find_elements(tree, "h1")
         IN IF h1_elements = <<>> THEN Processed(self, tree, self.title, FALSE, FALSE)
            ELSE LET h1 == h1_elements[1]
                     trim == /\ Len(h1.children) > 0
                             /\ h1.children[Len(h1.children)].tag = "a"
                             /\ Strip(h1.children[Len(h1.children)].tail) = <<>>
                     copied == copy_copy(h1)
                     removed == Element_remove(copied, copied.children[Len(copied.children)])
                     done == IF failing = "get_text_content" THEN Caught(self, tree)
                             ELSE Processed(self, tree,
                                            Text(Strip(get_text_content(
                                                IF trim THEN removed.element ELSE h1))),
                                            FALSE, FALSE)
                 IN IF trim /\ removed.error # "none" THEN Caught(self, tree)
                    ELSE IF trim THEN Mutated(done, removed.element)
                    ELSE done

\* ExtractTitleLXMLProcessor.process_tree(tree)
ExtractTitleLXMLProcessor_process_tree(self, tree, failing) ==
    IF failing = "find_elements" THEN Caught(self, tree)
    ELSE LET h1_elements == find_elements(tree, "h1")
         IN IF h1_elements = <<>> THEN Processed(self, tree, self.title, FALSE, FALSE)
            ELSE LET h1 == h1_elements[1]
                     children == h1.children
                     trim == /\ children # <<>>
                             /\ children[Len(children)].tag = "a"
                             /\ Strip(children[Len(children)].tail) = <<>>
                     copied == deepcopy(h1)
                     removed == Element_remove(copied, children[Len(children)])
                     done == IF failing = "get_text_content" THEN Caught(self, tree)
                             ELSE Processed(self, tree,
                                            Text(Strip(get_text_content(
                                                IF trim THEN removed.element ELSE h1))),
                                            FALSE, FALSE)
                 IN IF trim /\ removed.error # "none" THEN Caught(self, tree)
                    ELSE IF trim THEN Mutated(done, removed.element)
                    ELSE done

\* ExtractTitleETProcessor() / ExtractTitleLXMLProcessor(): title is None.
NewExtractTitle(class) ==
    /\ title.class = "none"
    /\ class = "ExtractTitleLXMLProcessor" => "lxml" \in installed
    /\ title' = [class |-> class, title |-> PyNone, called |-> FALSE,
                 failing |-> "none", given |-> <<>>,
                 tree |-> <<>>, returned |-> <<>>, warning |-> FALSE, raised |-> FALSE]
    /\ UNCHANGED <<sanitizer, pipeline, parservars, cachevars, keyvars, adaptervars, arguments>>

ProcessTree(tree, failing) ==
    /\ title.class # "none"
    /\ \E r \in {IF title.class = "ExtractTitleETProcessor"
                THEN ExtractTitleETProcessor_process_tree(title, tree, failing)
                ELSE ExtractTitleLXMLProcessor_process_tree(title, tree, failing)} :
          title' = [r EXCEPT !.failing = failing]
    /\ UNCHANGED <<sanitizer, pipeline, parservars, cachevars, keyvars, adaptervars, arguments>>

\* lxml installed, no title processor constructed yet.
TitleInit ==
    /\ InitCache
    /\ InitKey
    /\ InitLater
    /\ installed = {"lxml"}
    /\ adapters = <<>>
    /\ raised = NoError

TitleNext ==
    \/ \E class \in {"ExtractTitleETProcessor", "ExtractTitleLXMLProcessor"} :
          NewExtractTitle(class)
    \/ \E tree \in Trees, failing \in {"none", "find_elements", "get_text_content"} :
          ProcessTree(tree, failing)

\* One title processor is constructed and processes trees one after another.
TitleSpec == TitleInit /\ [][TitleNext]_vars

\* ------------------------------------------------------- claims: the cache

Supported(engine) == Contains(SUPPORTED_ENGINES, engine)

\* C1: with caching enabled, once a converter is stored under a key, every
\* later convert call with that key (from any MarkdownConverter object)
\* converts with that stored instance: it builds none and the stored instance
\* carries out the conversion; and no stored entry is evicted or replaced by
\* another instance.
C1_StoredInstanceServesLaterCalls ==
    [][/\ \A k \in DOMAIN converter_cache :
            k \in DOMAIN converter_cache' /\ converter_cache'[k] = converter_cache[k]
       /\ (/\ last'.op = "convert"
           /\ last'.looked_up
           /\ last'.cache_key \in DOMAIN converter_cache)
          => /\ last'.hit
             /\ last'.used = converter_cache[last'.cache_key]
             /\ last'.built = 0
             /\ Len(instances') = Len(instances)
             /\ last'.error \in {"none", "ConversionError"}]_vars

\* The configuration a backend object has and the one a plan asks for agree:
\* same library, same extensions up to order, same options.
SameConfiguration(inst, plan) ==
    /\ inst.lib = plan.lib
    /\ sorted(inst.extensions) = sorted(plan.extensions)
    /\ inst.options = plan.options

\* C2: two convert calls whose effective configuration differs never share a
\* cached converter: a call that is served from the cache gets an instance
\* configured as the call itself would have configured it.
C2_CacheHitHasTheCallsConfiguration ==
    (last.op = "convert" /\ last.hit)
    => SameConfiguration(
           instances[last.used],
           _convert_with_engine(objects[last.obj].engine, last.extensions,
                                last.admonitions, last.kwargs))

\* C3: with caching enabled, over any sequence of convert calls, also ones
\* that end in an error, at most one converter is constructed per cache key.
C3_AtMostOneConstructionPerKey ==
    \A i, j \in 1..Len(instances) :
        (instances[i].forKey # NoKey /\ instances[i].forKey = instances[j].forKey)
        => i = j

\* C5: a convert call on a converter created with cache_enabled = False
\* neither reads nor writes the cache, leaves its contents as they were, and
\* builds a fresh converter, with which it converts.
C5_DisabledCacheIsUntouched ==
    [][(last'.op = "convert" /\ ~objects[last'.obj].cache_enabled)
       => /\ converter_cache' = converter_cache
          /\ ~last'.looked_up /\ ~last'.hit /\ ~last'.stored
          /\ last'.built = Len(instances) + 1
          /\ Len(instances') = Len(instances) + 1
          /\ last'.used = last'.built]_vars

\* C6: when convert calls run concurrently with caching enabled, in every
\* interleaving the instance stored under a key was constructed from that
\* key's own configuration: by a call with that key, or configured exactly as
\* such a call configures its converter.
C6_StoredInstanceWasBuiltForItsKey ==
    \A k \in DOMAIN converter_cache :
        \/ instances[converter_cache[k]].forKey = k
        \/ \E j \in 1..Len(instances) :
              /\ instances[j].forKey = k
              /\ SameConfiguration(instances[converter_cache[k]], instances[j])

\* C7: on a cache hit the stored converter is reset before it converts, so
\* the HTML does not depend on texts converted earlier with that instance.
C7_CachedConverterIsResetBeforeReuse ==
    (last.op = "convert" /\ last.hit /\ last.html.ok) => last.html.carried = {}

\* C8: constructing a MarkdownConverter with an engine name that is not in
\* SUPPORTED_ENGINES raises ValueError before any engine is set up: no
\* converter object results, no backend object is made, the cache is unchanged.
C8_UnsupportedEngineIsRejected ==
    [][(last'.op = "init" /\ ~Supported(last'.engine))
       => /\ last'.error = "ValueError"
          /\ objects' = objects
          /\ instances' = instances
          /\ converter_cache' = converter_cache]_vars

\* The constructor rejected an engine name while a converter and a cache
\* entry existed.
C8_Witness ==
    /\ last.op = "init"
    /\ last.error = "ValueError"
    /\ ~Supported(last.engine)
    /\ Len(objects) > 0
    /\ DOMAIN converter_cache # {}

\* C9: after successful construction with any supported engine name, convert
\* dispatches to a conversion routine and never fails with the
\* unsupported-engine error.
C9_AcceptedEngineConverts ==
    (last.op = "convert" /\ Supported(objects[last.obj].engine))
    => last.error # "ValueError"

\* ----------------------------------------------------- claims: the cache key

Count(l, x) == Cardinality({i \in 1..Len(l) : l[i] = x})

IsPermutation(a, b) ==
    Len(a) = Len(b) /\ \A i \in 1..Len(a) : Count(a, a[i]) = Count(b, a[i])

\* The same keyword options, in whatever order they were given.
SameOptions(d, e) == {d[i] : i \in 1..Len(d)} = {e[i] : i \in 1..Len(e)}

\* The argument pairs that differ from key_args only in the order of the
\* extensions list or of the keyword options.
Reorderings ==
    {x \in KeyExtensionArgs \X KeyKwargsArgs :
        /\ x[1].kind = key_args.extensions.kind
        /\ IsPermutation(x[1].items, key_args.extensions.items)
        /\ SameOptions(x[2], key_args.kwargs)}

Backend ==
    [MarkoParser |-> "marko", HtmdConverter |-> "htmd",
     SanitizeHTMLProcessor |-> "bleach", Prettify |-> "bs4"]

\* C10: constructing an adapter whose backend library is not installed raises
\* ImportError with a message that names the missing library and a package to
\* install, and leaves no adapter object behind.
C10_MissingBackendIsNamed ==
    /\ \A i \in 1..Len(adapters) : Backend[adapters[i].class] \in installed
    /\ (raised.adapter # "" /\ Backend[raised.adapter] \notin installed)
       => /\ raised.type = "ImportError"
          /\ raised.not_installed = Backend[raised.adapter]
          /\ raised.install # ""

\* ------------------------------------------------ claims: parser adapters

\* The option names each backend adapter knows.
KnownOptions(adapter) ==
    IF adapter = "comrak"
    THEN ComrakFlags \cup {"header_ids", "front_matter_delimiter", "default_info_string",
                           "width", "list_style"}
    ELSE IF adapter = "pyromark" THEN PyromarkFlags \cup {"convert_admonitions"}
    ELSE IF adapter = "MarkoParser"
    THEN {MarkoCommonOptions[i][1] : i \in 1..Len(MarkoCommonOptions)}
             \cup {"gfm", "codehilite_options"}
    ELSE {PythonMarkdownOptions[i][1] : i \in 1..Len(PythonMarkdownOptions)}
             \cup {"extension_configs", "output_format"}

\* The call of the same adapter with other options.
SameCallWith(adapter, options) ==
    IF adapter = "comrak" THEN comrak_markdown_to_html(options)
    ELSE IF adapter = "pyromark" THEN pyromark_markdown_to_html(options)
    ELSE IF adapter = "MarkoParser" THEN MarkoParser_convert(parser, options).call
    ELSE PythonMarkdownParser_convert(parser, options).call

\* Two engines have the same native features switched on.
SameNative(e, f) ==
    /\ e.extensions = f.extensions
    /\ e.flags = f.flags
    /\ e.gfm = f.gfm

\* C11: an option name the backend does not know is dropped silently: the
\* call completes without error and the engine has the native features of
\* the same call without that option.
C11_UnknownOptionIsDropped ==
    pcall.adapter # "none"
    => \A u \in DOMAIN pcall.options \ KnownOptions(pcall.adapter) :
          /\ pcall.error = "none"
          /\ SameNative(pcall.engine,
                        SameCallWith(pcall.adapter, OptionsWithout(pcall.options, u)).engine)

\* An engine with GFM in effect was handed none of the extensions GFM implies.
NothingImpliedTwice(engine) ==
    engine.gfm => \A i \in 1..Len(engine.extensions) : engine.extensions[i] \notin GfmImplied

\* C12: whenever MarkoParser builds an engine with GFM in effect, at
\* construction or in convert, the extension list passed to the engine holds
\* none of tables, strikethrough and tasklist.
C12_GfmImpliedExtensionsAreNotListed ==
    /\ parser.class = "MarkoParser" => NothingImpliedTwice(parser._parser)
    /\ pcall.adapter = "MarkoParser" => NothingImpliedTwice(pcall.engine)

\* The adapter as its constructor leaves it, from the constructor's arguments.
AsConstructed ==
    IF parser.class = "MarkoParser" THEN MarkoParser_new(parser.config)
    ELSE PythonMarkdownParser_new(parser.config)

NamedIsAvailable(name) ==
    \/ name = PyStr("nh3") /\ NH3_AVAILABLE
    \/ name = PyStr("bleach") /\ BLEACH_AVAILABLE

SanitizerClass(name) == IF name = PyStr("nh3") THEN "NH3Sanitizer" ELSE "BleachSanitizer"

\* C14: create_sanitizer returns the backend sanitizer_name names whenever
\* that backend is available; in every other case it returns the nh3
\* sanitizer if nh3 is available and the bleach sanitizer only if nh3 is not.
C14_ResolutionOrder ==
    sanitizer.class # "none" /\ sanitizer.op = "create_sanitizer"
    => IF NamedIsAvailable(sanitizer.call.sanitizer_name)
       THEN sanitizer.class = SanitizerClass(sanitizer.call.sanitizer_name)
       ELSE /\ NH3_AVAILABLE => sanitizer.class = "NH3Sanitizer"
            /\ sanitizer.class = "BleachSanitizer" => ~NH3_AVAILABLE /\ BLEACH_AVAILABLE

\* C14 witness: both backends available, bleach asked for by name and
\* returned.
C14_Witness ==
    /\ NH3_AVAILABLE /\ BLEACH_AVAILABLE
    /\ sanitizer.class = "BleachSanitizer"
    /\ sanitizer.call.sanitizer_name = PyStr("bleach")

\* C15: create_sanitizer raises if and only if neither nh3 nor bleach is
\* available; then, whatever sanitizer_name is, the ImportError names both
\* nh3 and bleach and no sanitizer is returned; otherwise a sanitizer is.
C15_FailsIffNoBackend ==
    sanitizer.class # "none" /\ sanitizer.op = "create_sanitizer"
    => /\ sanitizer.error # "none" <=> ~NH3_AVAILABLE /\ ~BLEACH_AVAILABLE
       /\ sanitizer.error # "none"
          => /\ sanitizer.error = "ImportError"
             /\ {"nh3", "bleach"} \subseteq sanitizer.names
             /\ sanitizer.class = ""
       /\ sanitizer.error = "none" => sanitizer.class \in {"NH3Sanitizer", "BleachSanitizer"}

\* C15 witness: no backend available, bleach asked for by name, ImportError.
C15_Witness ==
    /\ installed = {}
    /\ sanitizer.class = ""
    /\ sanitizer.error = "ImportError"
    /\ sanitizer.call.sanitizer_name = PyStr("bleach")

\* C16: the allow-lists process_html hands to the engine are the configured
\* ones for every configured value, the empty list included; the engine's
\* default is used only where the option was left None.
C16_ConfiguredAllowListReachesEngine ==
    sanitizer.class = "SanitizeHTMLProcessor" /\ sanitizer.cleaned
    => /\ sanitizer.handed.tags =
              IF sanitizer.allowed_tags = PyNone THEN BleachDefault("TAGS")
              ELSE sanitizer.allowed_tags
       /\ sanitizer.handed.attributes =
              IF sanitizer.allowed_attributes = PyNone THEN BleachDefault("ATTRIBUTES")
              ELSE sanitizer.allowed_attributes
       /\ sanitizer.handed.protocols =
              IF sanitizer.allowed_protocols = PyNone THEN BleachDefault("PROTOCOLS")
              ELSE sanitizer.allowed_protocols

\* ------------------------------------------------------ claims: pipeline

\* The registered stage with an id.
StageOf(id) == pipeline.stages[id]

\* C17: the stages execute in strictly descending order of priority, stages
\* of equal priority in the order of registration; without a failure every
\* registered stage executes once; the order is that of the stages alone,
\* whatever the input HTML.
C17_DescendingPriorityTiesByRegistration ==
    pipeline.ran
    => /\ \A i, j \in 1..Len(pipeline.log) :
             i < j => \/ StageOf(pipeline.log[i]).priority > StageOf(pipeline.log[j]).priority
                      \/ /\ StageOf(pipeline.log[i]).priority = StageOf(pipeline.log[j]).priority
                         /\ pipeline.log[i] < pipeline.log[j]
       /\ pipeline.error = "none"
          => /\ Len(pipeline.log) = Len(pipeline.stages)
             /\ \A id \in 1..Len(pipeline.stages) : Contains(pipeline.log, id)

\* C17 witness: four stages with the priorities 10, 5, 5 and 1 registered in
\* another order than they execute in, all executed.
C17_Witness ==
    /\ pipeline.ran
    /\ pipeline.error = "none"
    /\ Len(pipeline.log) = 4
    /\ pipeline.log # <<1, 2, 3, 4>>
    /\ \E a, b \in 1..4 : a # b /\ StageOf(a).priority = 5 /\ StageOf(b).priority = 5
    /\ \E a, b \in 1..4 : StageOf(a).priority = 10 /\ StageOf(b).priority = 1

\* C18: when a stage fails with ProcessingError the pipeline aborts: the
\* failing stage is the last one executed, no stage behind it in the order
\* executes, no HTML is returned and the caller gets the ProcessingError.
C18_FailingStageAbortsThePipeline ==
    pipeline.ran /\ (\E i \in 1..Len(pipeline.log) : StageOf(pipeline.log[i]).fails)
    => /\ pipeline.error = "ProcessingError"
       /\ pipeline.html = <<>>
       /\ StageOf(pipeline.log[Len(pipeline.log)]).fails
       /\ pipeline.failed = pipeline.log[Len(pipeline.log)]
       /\ \A i \in 1..(Len(pipeline.log) - 1) : ~StageOf(pipeline.log[i]).fails
       /\ \A id \in 1..Len(pipeline.stages) :
             StageOf(id).priority < StageOf(pipeline.failed).priority
             => ~Contains(pipeline.log, id)

\* C18 witness: a failing stage of priority 5 between succeeding stages of
\* priorities 10 and 1; the first executed, the last did not.
C18_Witness ==
    /\ pipeline.ran
    /\ pipeline.error = "ProcessingError"
    /\ StageOf(pipeline.failed).priority = 5
    /\ \E a, b \in 1..Len(pipeline.stages) :
          /\ StageOf(a).priority = 10 /\ ~StageOf(a).fails /\ Contains(pipeline.log, a)
          /\ StageOf(b).priority = 1 /\ ~StageOf(b).fails /\ ~Contains(pipeline.log, b)

\* ----------------------------------------------- claims: title extraction

\* The first h1 of the tree a processor was given ends in an element with
\* the tag, text and tail, and no helper call failed on its own.
GivenFirstH1EndsIn(tag, text, tail) ==
    /\ title.class # "none" /\ title.called /\ title.failing = "none"
    /\ find_elements(title.given, "h1") # <<>>
    /\ \E h1 \in {find_elements(title.given, "h1")[1]} :
          /\ h1.text = <<"Hello", " ">>
          /\ Len(h1.children) = 1
          /\ h1.children[1].tag = tag
          /\ h1.children[1].text = text
          /\ h1.children[1].tail = tail

\* C19: for an h1 with text 'Hello ' followed by an empty anchor, either
\* processor sets title to 'Hello'; for an h1 with text 'Hello ' followed by
\* an em with text 'World', either sets title to 'Hello World'.
C19_TitleIsStrippedTextWithoutEmptyAnchor ==
    /\ GivenFirstH1EndsIn("a", <<>>, <<>>) => title.title = Text(<<"Hello">>)
    /\ GivenFirstH1EndsIn("em", <<"World">>, <<>>)
       => title.title = Text(<<"Hello", " ", "World">>)

\* C20: process_tree of either title processor never raises; when an internal
\* step fails a warning is logged; the tree given is returned, unchanged.
C20_FailureInsideTitleStageIsNoOp ==
    title.class # "none" /\ title.called
    => /\ ~title.raised
       /\ title.returned = title.given
       /\ title.tree = title.given
       /\ title.failing = "find_elements" => title.warning
       /\ title.failing = "get_text_content" /\ find_elements(title.given, "h1") # <<>>
          => title.warning

\* C20 witness: a helper call failed while a tree with an h1 was processed,
\* the warning was logged and the tree came back.
C20_Witness ==
    /\ title.class # "none" /\ title.called
    /\ title.failing = "get_text_content"
    /\ find_elements(title.given, "h1") # <<>>
    /\ title.warning
    /\ ~title.raised
    /\ title.returned = title.given

\* C21: process_tree returns the very tree it was given and the tree is as
\* before the call; where a trailing anchor is trimmed for the title, the
\* first h1 of the tree still has the anchor as its last child.
C21_TreeIsNotAlteredByTitleExtraction ==
    title.class # "none" /\ title.called
    => /\ title.returned = title.tree
       /\ \A i \in 1..Len(title.given) :
             /\ title.tree[i].children = title.given[i].children
             /\ title.tree[i].text = title.given[i].text
             /\ title.tree[i].tag = title.given[i].tag
       /\ Len(title.tree) = Len(title.given)

\* C21 witness: an h1 ending in an empty anchor was processed, the title was
\* taken without the anchor and the h1 of the tree still ends in the anchor.
C21_Witness ==
    /\ title.class # "none" /\ title.called
    /\ title.title = Text(<<"Hello">>)
    /\ ~title.warning
    /\ find_elements(title.tree, "h1") # <<>>
    /\ find_elements(title.tree, "h1")[1].children # <<>>
    /\ find_elements(title.tree, "h1")[1].children[1].tag = "a"
    /\ find_elements(title.tree, "h1")[1].children[1].text = <<>>

\* C24: after every process_tree call the title describes the tree just
\* processed: the stripped text of its first h1 if it has one, None if it has
\* none.
C24_TitleDescribesTheTreeJustProcessed ==
    title.class # "none" /\ title.called /\ title.failing = "none"
    => title.title =
           IF find_elements(title.given, "h1") = <<>> THEN PyNone
           ELSE Text(Strip(get_text_content(find_elements(title.given, "h1")[1])))

\* C26: when the last child of the first h1 is an anchor that carries text
\* and has no text behind it, the anchor's text is part of the title.
C26_AnchorWithTextStaysInTitle ==
    GivenFirstH1EndsIn("a", <<"Docs">>, <<>>)
    => title.title = Text(<<"Hello", " ", "Docs">>)

\* C25: convert does not modify the objects its caller passes: the extensions
\* list and an extras list passed as a keyword option have the same contents
\* after the call as before, and a call repeated with the same objects uses
\* the same cache key.
C25_ConvertLeavesCallerArgumentsAlone ==
    arguments.calls > 0
    => /\ arguments.extensions = arguments.passed.extensions
       /\ arguments.extras = arguments.passed.extras
       /\ arguments.repeated => arguments.cache_key = arguments.earlier_key

\* ------------------------------------------- claims: sanitizing, parsing

C23_StoredParserIsResetBeforeUse ==
    pcall.adapter = "PythonMarkdownParser"
    => /\ ~pcall.stale
       /\ pcall.used = IF DOMAIN pcall.options = {} THEN "stored" ELSE "temporary"
       /\ pcall.used = "temporary" => parser.stale = pcall.held

\* C23 witness: a conversion without options on a stored parser that held
\* the state of an earlier document when the call began.
C23_Witness ==
    /\ pcall.adapter = "PythonMarkdownParser"
    /\ pcall.used = "stored"
    /\ pcall.held
    /\ ~pcall.stale

====
